---- MODULE Spec2Model ----
(***************************************************************************)
(* Model of zds/search2/models.py: the indexable mixins (ESIndexableMixin, *)
(* ESDjangoIndexableMixin) and the bulk engine ESIndexManager.             *)
(*                                                                         *)
(* Vocabulary of the specification against the code:                      *)
(*   needsSync    = es_flagged          (database column)                  *)
(*   everIndexed  = es_already_indexed  (database column for Django models,*)
(*                                       plain attribute otherwise)        *)
(*   externalId   = es_id               (plain attribute, never a column:  *)
(*                                       a Django object gets str(pk) each *)
(*                                       time it is constructed)           *)
(*   syncType     = ESIndexManager.es_bulk_action_on_model                 *)
(*   pendingInstances = get_es_indexable                                   *)
(*   onSynced     = es_done_indexing                                       *)
(*   resetIndex   = ESIndexManager.reset_es_index                          *)
(*                                                                         *)
(* Collaborators outside the file are modelled by their contract:          *)
(*   - django.db.transaction.atomic: the writes of the decorated call are  *)
(*     buffered (tx) and reach the database (db) only when the call        *)
(*     returns; an exception leaving the call discards them.               *)
(*   - elasticsearch.helpers.streaming_bulk(client, actions) with its      *)
(*     default arguments (raise_on_error=True, raise_on_exception=True):   *)
(*     the batch is sent as one bulk request, the items of the response    *)
(*     come back in submission order, items are yielded while no item has  *)
(*     failed, and BulkIndexError is raised once the response holds a      *)
(*     failed item.                                                        *)
(*   - the Elasticsearch index: documents keyed by (type, id); `index`     *)
(*     creates or overwrites and assigns an id when none is given,         *)
(*     `update` merges into an existing document and answers 404 when      *)
(*     there is none.                                                      *)
(***************************************************************************)
EXTENDS Integers, Sequences, FiniteSets, TLC

\* ---------------------------------------------------------------- bounds
NEnt == 2          \* rows the Django model's table may hold
MaxContent == 1    \* an entity's mapped field takes the values 0..MaxContent
NPlain == 2        \* objects of the non-Django indexable class
MaxAuto == 2       \* identifiers the remote index may assign by itself

Contents == 0..MaxContent

VARIABLES
    db,         \* the Django table: db[pk] is the committed row of pk
    plain,      \* the in-memory objects of the non-Django indexable class
    remote,     \* the Elasticsearch index: (type, id) -> source
    nextAuto,   \* how many identifiers the remote index has assigned
    pc,         \* "idle", or the position inside the running call
    model,      \* es_bulk_action_on_model: the `model` argument
    force,      \* es_bulk_action_on_model: the `force_reindexing` argument
    objs,       \* es_bulk_action_on_model: the local list `objs`
    documents,  \* es_bulk_action_on_model: the local list `documents`
    results,    \* the items of the bulk response, in response order
    idx,        \* position of the next item streaming_bulk hands out
    tx,         \* rows written inside the open transaction (atomic)
    outcome,    \* how the running call ended: "ok" or the exception raised
    calls,      \* requests the running call has sent to the remote index
    built,      \* result of a direct call of make_es_document
    pre,        \* db, plain and remote as they were when the call started
    healing,    \* set once entities stop being mutated and calls stop
                \* failing: the batch of the failed pass this began after
    again,      \* set while a call is repeated right after it returned:
                \* the arguments of the call being repeated
    resolved,   \* result of a direct call of get_es_content_type
    mutated     \* rows another actor saved while the call was running

vars == <<db, plain, remote, nextAuto, pc, model, force, objs, documents,
          results, idx, tx, outcome, calls, built, pre, healing, again,
          resolved, mutated>>

\* ------------------------------------------------------------- str(pk)
Digit(d) ==
    CASE d = 0 -> "0" [] d = 1 -> "1" [] d = 2 -> "2" [] d = 3 -> "3"
      [] d = 4 -> "4" [] d = 5 -> "5" [] d = 6 -> "6" [] d = 7 -> "7"
      [] d = 8 -> "8" [] d = 9 -> "9"

RECURSIVE Str(_)
Str(n) == IF n < 10 THEN Digit(n) ELSE Str(n \div 10) \o Digit(n % 10)

\* An identifier chosen by the remote index (never a decimal number).
AutoId(n) == "auto-" \o Str(n)

\* ------------------------------------------------------- class hierarchy
\* The classes: the two mixins of the file, one Django model (Topic), one
\* indexable class outside the database that overrides get_es_indexable
\* (FakeChapter) and one that does not (Draft); and a chain of Django
\* models, G, its subclass P and P's subclass C.
DjangoModel == "Topic"
PlainModel == "FakeChapter"
BaseModel == "Draft"
Models == {DjangoModel, PlainModel, BaseModel}
Chain == {"G", "P", "C"}
Classes == Models \cup Chain

Bases(cls) ==
    CASE cls = "Topic" -> <<"ESDjangoIndexableMixin">>
      [] cls = "FakeChapter" -> <<"ESIndexableMixin">>
      [] cls = "Draft" -> <<"ESIndexableMixin">>
      [] cls = "ESDjangoIndexableMixin" -> <<"ESIndexableMixin", "Model">>
      [] cls = "G" -> <<"ESDjangoIndexableMixin">>
      [] cls = "P" -> <<"G">>
      [] cls = "C" -> <<"P">>
      [] OTHER -> <<>>

RECURSIVE IsSubclass(_, _)
IsSubclass(cls, other) ==
    \/ cls = other
    \/ \E i \in 1..Len(Bases(cls)) : IsSubclass(Bases(cls)[i], other)

Lower(name) ==
    CASE name = "Topic" -> "topic"
      [] name = "FakeChapter" -> "fakechapter"
      [] name = "Draft" -> "draft"
      [] name = "ESIndexableMixin" -> "esindexablemixin"
      [] name = "ESDjangoIndexableMixin" -> "esdjangoindexablemixin"
      [] name = "Model" -> "model"
      [] name = "G" -> "g"
      [] name = "P" -> "p"
      [] name = "C" -> "c"

RECURSIVE PrefixBases(_, _, _)
PrefixBases(bases, i, content_type) ==
    IF i > Len(bases) THEN content_type
    ELSE PrefixBases(bases, i + 1,
            IF IsSubclass(bases[i], "ESIndexableMixin")
               /\ bases[i] # "ESDjangoIndexableMixin"
            THEN Lower(bases[i]) \o "_" \o content_type
            ELSE content_type)

GetEsContentType(cls) == PrefixBases(Bases(cls), 1, Lower(cls))

IsDjango(cls) == IsSubclass(cls, "ESDjangoIndexableMixin")

\* --------------------------------------------------------------- objects
\* ESIndexableMixin: the class attributes es_already_indexed and es_id.
NewPlain == [es_id |-> "", es_already_indexed |-> FALSE, content |-> 0]

\* ESDjangoIndexableMixin: the field defaults of a row that save() has not
\* yet touched.
NewRow(c) == [content |-> c, es_flagged |-> TRUE, es_already_indexed |-> FALSE]

\* Mutant: __init__ that leaves es_id at the class attribute.
Load_KeepsClassId(table, pk) ==
    [cls |-> DjangoModel, pk |-> pk, es_id |-> "",
     es_already_indexed |-> table[pk].es_already_indexed,
     es_flagged |-> table[pk].es_flagged,
     content |-> table[pk].content]

\* ESDjangoIndexableMixin.__init__: the object built from the row of pk.
Load(table, pk) ==
    [cls |-> DjangoModel, pk |-> pk, es_id |-> Str(pk),
     es_already_indexed |-> table[pk].es_already_indexed,
     es_flagged |-> table[pk].es_flagged,
     content |-> table[pk].content]

\* The k-th object of the non-Django class.
PlainObj(mem, k) ==
    [cls |-> PlainModel, pk |-> k, es_id |-> mem[k].es_id,
     es_already_indexed |-> mem[k].es_already_indexed,
     content |-> mem[k].content]

\* get_es_mapping: the fields of the mapping (`pk` is added for Django).
MappingFields(cls) == IF IsDjango(cls) THEN {"pk", "content"} ELSE {"content"}

\* get_es_document_source: one entry per field of the mapping.
GetEsDocumentSource(obj) ==
    [field \in MappingFields(obj.cls) |->
        IF field = "pk" THEN obj.pk ELSE obj.content]

\* Mutant: es_done_indexing that does not record the identifier.
EsDoneIndexing_ForgetsId(obj, es_id) == [obj EXCEPT !.es_already_indexed = TRUE]

\* ESIndexableMixin.es_done_indexing (the in-memory part).
EsDoneIndexing(obj, es_id) ==
    [obj EXCEPT !.es_id = es_id, !.es_already_indexed = TRUE]

\* Mutant: save() that flags the object whatever the caller passes.
SetFlag_AlwaysFlags(obj, es_flagged) == [obj EXCEPT !.es_flagged = TRUE]

\* Mutant: save() that leaves the object's flag as it is.
SetFlag_KeepsFlag(obj, es_flagged) == obj

\* ESDjangoIndexableMixin.save, line 178: the flag is set on the object
\* (True unless the caller passes es_flagged).
SetFlag(obj, es_flagged) == [obj EXCEPT !.es_flagged = es_flagged]

\* ESDjangoIndexableMixin.save, line 180: Model.save() writes every column
\* of the object's row.
SavedRow(obj) ==
    [content |-> obj.content, es_flagged |-> obj.es_flagged,
     es_already_indexed |-> obj.es_already_indexed]

\* ESDjangoIndexableMixin.es_done_indexing: the object after the call.
DjangoDoneIndexing(obj, es_id) == SetFlag(EsDoneIndexing(obj, es_id), FALSE)

\* ------------------------------------------------------ get_es_indexable
RECURSIVE Ascending(_)
Ascending(S) ==
    IF S = {} THEN <<>>
    ELSE LET m == CHOOSE x \in S : \A y \in S : x <= y
         IN <<m>> \o Ascending(S \ {m})

\* Mutant: the non-forced query leaves out the rows already indexed.
GetEsDjangoIndexable_OnlyNew(table, force_reindexing) ==
    {pk \in 1..Len(table) :
        force_reindexing
            \/ (table[pk].es_flagged /\ ~table[pk].es_already_indexed)}

\* Mutant: the query filters on es_flagged whatever force_reindexing is.
GetEsDjangoIndexable_AlwaysFilters(table, force_reindexing) ==
    {pk \in 1..Len(table) : table[pk].es_flagged}

\* get_es_django_indexable: every row, or the flagged rows only.
GetEsDjangoIndexable(table, force_reindexing) ==
    {pk \in 1..Len(table) : force_reindexing \/ table[pk].es_flagged}

\* get_es_indexable(force_reindexing).  `chosen` stands for what the
\* override of the non-Django class returns.
GetEsIndexable(cls, force_reindexing, chosen, table, mem) ==
    IF IsDjango(cls)
    THEN LET pks == Ascending(GetEsDjangoIndexable(table, force_reindexing))
         IN [i \in 1..Len(pks) |-> Load(table, pks[i])]
    ELSE IF cls = PlainModel
    THEN LET ks == Ascending(chosen)
         IN [i \in 1..Len(ks) |-> PlainObj(mem, ks[i])]
    ELSE <<>>

\* ------------------------------------------------------ make_es_document
EsIndexName == "zds"

\* Mutant: every action string is accepted.
ValidAction_AcceptsAll(action) == TRUE

ValidAction(action) == action \in {"index", "update", "delete"}

\* Mutant: an `index` operation always carries `_id`.
MakeEsDocument_AlwaysId(obj, action) ==
    LET document ==
            [key \in {"_op_type", "_index", "_type"} |->
                CASE key = "_op_type" -> action
                  [] key = "_index" -> EsIndexName
                  [] key = "_type" -> GetEsContentType(obj.cls)]
    IN  IF action = "index"
        THEN ("_id" :> obj.es_id) @@ ("_source" :> GetEsDocumentSource(obj))
             @@ document
        ELSE IF action = "update"
        THEN ("_id" :> obj.es_id) @@ ("doc" :> GetEsDocumentSource(obj))
             @@ document
        ELSE ("_id" :> obj.es_id) @@ document

MakeEsDocument(obj, action) ==
    LET document ==
            [key \in {"_op_type", "_index", "_type"} |->
                CASE key = "_op_type" -> action
                  [] key = "_index" -> EsIndexName
                  [] key = "_type" -> GetEsContentType(obj.cls)]
        withIndex ==
            IF action = "index"
            THEN ("_source" :> GetEsDocumentSource(obj))
                 @@ (IF obj.es_id # "" THEN ("_id" :> obj.es_id) @@ document
                     ELSE document)
            ELSE document
        withUpdate ==
            IF action = "update"
            THEN ("_id" :> obj.es_id) @@ ("doc" :> GetEsDocumentSource(obj))
                 @@ withIndex
            ELSE withIndex
    IN  IF action = "delete" THEN ("_id" :> obj.es_id) @@ withUpdate
        ELSE withUpdate

\* Mutant: the choice of the action without looking at force_reindexing.
ActionFor_IgnoresForce(obj, force_reindexing) ==
    IF obj.es_already_indexed THEN "update" ELSE "index"

\* The action es_bulk_action_on_model picks for obj.
ActionFor(obj, force_reindexing) ==
    IF obj.es_already_indexed /\ ~force_reindexing THEN "update" ELSE "index"

\* ------------------------------------------------------- the remote index
EmptyIndex == [key \in {} |-> key]

Hit(op, id, status) ==
    op :> [key \in {"_id", "status"} |-> IF key = "_id" THEN id ELSE status]

\* streaming_bulk: an item is ok when its status is 2xx.
ItemOk(status) == 200 <= status /\ status < 300

\* One operation of a bulk request applied to the index; `reject` is the
\* remote index refusing the operation for a reason of its own.
BulkItem(st, d, reject) ==
    LET op == d["_op_type"]
        given == "_id" \in DOMAIN d
        id == IF given THEN d["_id"] ELSE AutoId(st.nextAuto + 1)
        key == <<d["_type"], id>>
        known == key \in DOMAIN st.index
        status ==
            IF reject THEN 400
            ELSE IF op = "index" THEN (IF known THEN 200 ELSE 201)
            ELSE IF known THEN 200 ELSE 404
        ok == ItemOk(status)
    IN  [index |->
            IF ~ok THEN st.index
            ELSE IF op = "index" THEN (key :> d["_source"]) @@ st.index
            ELSE (key :> (d["doc"] @@ st.index[key])) @@ st.index,
         nextAuto |-> IF ok /\ ~given THEN st.nextAuto + 1 ELSE st.nextAuto,
         items |-> Append(st.items, [ok |-> ok, hit |-> Hit(op, id, status)])]

RECURSIVE BulkFrom(_, _, _, _)
BulkFrom(st, docs, rejects, i) ==
    IF i > Len(docs) THEN st
    ELSE BulkFrom(BulkItem(st, docs[i], rejects[i]), docs, rejects, i + 1)

\* Mutant: every item is handed to the loop, failed or not.
StreamYields_All(items, i) == TRUE

\* streaming_bulk with raise_on_error: the i-th item is handed to the loop
\* when it and every item before it succeeded.
StreamYields(items, i) == \A j \in 1..i : items[j].ok

\* client.bulk: the whole batch, in order.
Bulk(index, auto, docs, rejects) ==
    BulkFrom([index |-> index, nextAuto |-> auto, items |-> <<>>],
             docs, rejects, 1)

\* ---------------------------------------------------------------- atomic
\* atomic on a normal return: the buffered rows reach the table.
CommitRows(table, written) ==
    [pk \in 1..Len(table) |->
        IF pk \in DOMAIN written THEN written[pk] ELSE table[pk]]

\* Mutant: an exception that leaves the buffered rows in the table.
RollBack_KeepsRows(table, written) == CommitRows(table, written)

\* atomic on an exception: the buffered rows are dropped.
RollBack(table, written) == table

\* ------------------------------------------------------------- the state
NoBuilt == [action |-> "", raised |-> ""]
NoPre == [taken |-> FALSE]
NotHealing == [on |-> FALSE]
NotAgain == [on |-> FALSE]
NoResolved == [cls |-> "", content_type |-> ""]
EmptyTx == [pk \in {} |-> pk]

Snapshot == [taken |-> TRUE, db |-> db, plain |-> plain, remote |-> remote]

Init ==
    /\ db = <<>>
    /\ plain = [k \in 1..NPlain |-> NewPlain]
    /\ remote = EmptyIndex
    /\ nextAuto = 0
    /\ pc = "idle"
    /\ model = ""
    /\ force = FALSE
    /\ objs = <<>>
    /\ documents = <<>>
    /\ results = <<>>
    /\ idx = 0
    /\ tx = EmptyTx
    /\ outcome = ""
    /\ calls = 0
    /\ built = NoBuilt
    /\ pre = NoPre
    /\ healing = NotHealing
    /\ again = NotAgain
    /\ resolved = NoResolved
    /\ mutated = EmptyTx

passVars == <<model, force, objs, documents, results, idx, tx, outcome,
              calls, built, pre, healing, again, resolved, mutated>>

\* -------------------------------------------------- mutations of entities
\* A new row of the Django model: Model.save() of a fresh object.
Create(c) ==
    /\ pc = "idle"
    /\ Len(db) < NEnt
    /\ db' = Append(db, NewRow(c))
    /\ UNCHANGED <<plain, remote, nextAuto, pc, passVars>>

\* Mutant: save() that writes the field defaults over the row.
Save_FromDefaults(pk, c) ==
    /\ pc = "idle"
    /\ pk \in 1..Len(db)
    /\ db' = [db EXCEPT ![pk] = NewRow(c)]
    /\ UNCHANGED <<plain, remote, nextAuto, pc, passVars>>

\* ESDjangoIndexableMixin.save() of the object of row pk with content c.
Save(pk, c) ==
    /\ pc = "idle"
    /\ pk \in 1..Len(db)
    /\ db' = [db EXCEPT ![pk] =
                SavedRow(SetFlag([Load(db, pk) EXCEPT !.content = c], TRUE))]
    /\ UNCHANGED <<plain, remote, nextAuto, pc, passVars>>

\* ESIndexManager.reset_es_index
ResetEsIndex ==
    /\ pc = "idle"
    /\ remote' = EmptyIndex
    /\ UNCHANGED <<db, plain, nextAuto, pc, passVars>>

\* ------------------------------------------- make_es_document, called alone
Objects == {Load(db, pk) : pk \in 1..Len(db)}
               \cup {PlainObj(plain, k) : k \in 1..NPlain}

Actions == {"index", "update", "delete", "merge"}

CallMakeEsDocument(obj, action) ==
    /\ pc = "idle"
    /\ pc' = "made"
    /\ pre' = Snapshot
    /\ calls' = 0
    /\ objs' = <<obj>>
    /\ built' = IF ValidAction(action)
                THEN [action |-> action, raised |-> "",
                      document |-> MakeEsDocument(obj, action)]
                ELSE [action |-> action, raised |-> "ValueError"]
    /\ outcome' = IF ValidAction(action) THEN "ok" ELSE "ValueError"
    /\ UNCHANGED <<db, plain, remote, nextAuto, model, force, documents,
                   results, idx, tx, healing, again, resolved, mutated>>

\* ------------------------------------------------ es_bulk_action_on_model
\* Lines 261-263: fetch the objects and build one operation for each.
BeginSync(cls, force_reindexing, chosen) ==
    /\ pc = "idle"
    /\ cls = PlainModel \/ chosen = {}
    /\ LET fetched == GetEsIndexable(cls, force_reindexing, chosen, db, plain)
       IN /\ nextAuto + Cardinality({i \in 1..Len(fetched) :
                                          fetched[i].es_id = ""}) <= MaxAuto
          /\ objs' = fetched
          /\ documents' =
                [i \in 1..Len(fetched) |->
                    MakeEsDocument(fetched[i],
                                   ActionFor(fetched[i], force_reindexing))]
    /\ pc' = "built"
    /\ model' = cls
    /\ force' = force_reindexing
    /\ results' = <<>>
    /\ idx' = 0
    /\ tx' = EmptyTx
    /\ outcome' = "running"
    /\ calls' = 0
    /\ pre' = Snapshot
    /\ UNCHANGED <<db, plain, remote, nextAuto, built, healing, again,
                   resolved, mutated>>

\* Mutant: an empty batch is sent to the remote index all the same.
StreamNothing_SendsRequest ==
    /\ pc = "built"
    /\ Len(documents) = 0
    /\ pc' = "streaming"
    /\ idx' = 1
    /\ calls' = calls + 1
    /\ UNCHANGED <<db, plain, remote, nextAuto, model, force, objs,
                   documents, results, tx, outcome, built, pre,
                   healing, again, resolved, mutated>>

\* streaming_bulk with nothing to send: no request is made.
StreamNothing ==
    /\ pc = "built"
    /\ Len(documents) = 0
    /\ pc' = "streaming"
    /\ idx' = 1
    /\ UNCHANGED <<db, plain, remote, nextAuto, model, force, objs,
                   documents, results, tx, outcome, calls, built, pre,
                   healing, again, resolved, mutated>>

\* streaming_bulk sends the batch; the index answers item by item.
StreamBulk(rejects) ==
    /\ pc = "built"
    /\ Len(documents) > 0
    /\ LET st == Bulk(remote, nextAuto, documents, rejects)
       IN /\ remote' = st.index
          /\ nextAuto' = st.nextAuto
          /\ results' = st.items
    /\ calls' = calls + 1
    /\ pc' = "streaming"
    /\ idx' = 1
    /\ UNCHANGED <<db, plain, model, force, objs, documents, tx, outcome,
                   built, pre,
                   healing, again, resolved, mutated>>

\* streaming_bulk: the request itself fails (TransportError is re-raised).
BulkTransportError ==
    /\ pc = "built"
    /\ Len(documents) > 0
    /\ calls' = calls + 1
    /\ db' = RollBack(db, tx)
    /\ pc' = "failed"
    /\ outcome' = "TransportError"
    /\ tx' = EmptyTx
    /\ UNCHANGED <<plain, remote, nextAuto, model, force, objs,
                   documents, results, idx, built, pre,
                   healing, again, resolved, mutated>>

\* Mutant: a result is applied to the first object of the list whenever
\* that object has the es_already_indexed of the one at `index`.
ObjAt_FirstAlike(list, index) ==
    IF list[1].es_already_indexed = list[index].es_already_indexed
    THEN list[1]
    ELSE list[index]

\* Line 266: the object the index-th result is applied to.
ObjAt(list, index) == list[index]

\* Lines 265-268 for one yielded item: es_done_indexing on objs[index].
DoneIndexing ==
    /\ pc = "streaming"
    /\ idx <= Len(results)
    /\ StreamYields(results, idx)
    /\ LET obj == ObjAt(objs, idx)
           action == ActionFor(obj, force)
           es_id == results[idx].hit[action]["_id"]
           done == IF IsDjango(model) THEN DjangoDoneIndexing(obj, es_id)
                   ELSE EsDoneIndexing(obj, es_id)
       IN /\ objs' = [objs EXCEPT ![idx] = done]
          /\ IF IsDjango(model)
             THEN /\ tx' = (obj.pk :> SavedRow(done)) @@ tx
                  /\ UNCHANGED plain
             ELSE /\ plain' = [plain EXCEPT
                                 ![obj.pk].es_id = done.es_id,
                                 ![obj.pk].es_already_indexed =
                                     done.es_already_indexed]
                  /\ UNCHANGED tx
    /\ idx' = idx + 1
    /\ UNCHANGED <<db, remote, nextAuto, pc, model, force, documents,
                   results, outcome, calls, built, pre,
                   healing, again, resolved, mutated>>

\* The save() inside es_done_indexing raises: atomic rolls back.
LocalFailure ==
    /\ pc = "streaming"
    /\ idx <= Len(results)
    /\ StreamYields(results, idx)
    /\ IsDjango(model)
    /\ db' = RollBack(db, tx)
    /\ pc' = "failed"
    /\ outcome' = "DatabaseError"
    /\ tx' = EmptyTx
    /\ UNCHANGED <<plain, remote, nextAuto, model, force, objs,
                   documents, results, idx, calls, built, pre,
                   healing, again, resolved, mutated>>

\* streaming_bulk reaches a failed item: BulkIndexError, atomic rolls back.
RaiseBulkIndexError ==
    /\ pc = "streaming"
    /\ idx <= Len(results)
    /\ ~StreamYields(results, idx)
    /\ db' = RollBack(db, tx)
    /\ pc' = "failed"
    /\ outcome' = "BulkIndexError"
    /\ tx' = EmptyTx
    /\ UNCHANGED <<plain, remote, nextAuto, model, force, objs,
                   documents, results, idx, calls, built, pre,
                   healing, again, resolved, mutated>>

\* The result stream is exhausted: the call returns and atomic commits.
Commit ==
    /\ pc = "streaming"
    /\ idx > Len(results)
    /\ db' = CommitRows(db, tx)
    /\ tx' = EmptyTx
    /\ pc' = "done"
    /\ outcome' = "ok"
    /\ UNCHANGED <<plain, remote, nextAuto, model, force, objs, documents,
                   results, idx, calls, built, pre,
                   healing, again, resolved, mutated>>

\* The caller has the result (or the exception); the locals are gone.
ReturnToCaller ==
    /\ pc \in {"done", "failed", "made"}
    /\ pc' = "idle"
    /\ model' = ""
    /\ force' = FALSE
    /\ objs' = <<>>
    /\ documents' = <<>>
    /\ results' = <<>>
    /\ idx' = 0
    /\ tx' = EmptyTx
    /\ outcome' = ""
    /\ calls' = 0
    /\ built' = NoBuilt
    /\ pre' = NoPre
    /\ UNCHANGED <<db, plain, remote, nextAuto>>

Return == ReturnToCaller /\ UNCHANGED <<healing, again, resolved, mutated>>

Next ==
    \/ \E c \in Contents : Create(c)
    \/ \E pk \in 1..NEnt, c \in Contents : Save(pk, c)
    \/ ResetEsIndex
    \/ \E obj \in Objects, action \in Actions : CallMakeEsDocument(obj, action)
    \/ \E cls \in Models, f \in BOOLEAN, chosen \in SUBSET (1..NPlain) :
            BeginSync(cls, f, chosen)
    \/ StreamNothing
    \/ \E rejects \in [1..Len(documents) -> BOOLEAN] : StreamBulk(rejects)
    \/ BulkTransportError
    \/ DoneIndexing
    \/ LocalFailure
    \/ RaiseBulkIndexError
    \/ Commit
    \/ Return

Spec == Init /\ [][Next]_vars

\* ------------------------------------------- the Django model, healing
\* A pass in which the remote index rejects nothing of its own accord.
StreamBulkClean == StreamBulk([i \in 1..Len(documents) |-> FALSE])

\* The pass whose bulk request succeeded for every item and whose
\* transaction failed has just ended.
LocalFailureAfterRemoteSuccess ==
    /\ pc = "failed" /\ outcome = "DatabaseError"
    /\ \A i \in 1..Len(results) : results[i].ok

\* The failed pass returns and, from here on, no entity is mutated, the
\* index is not reset and no call fails.
Settle ==
    /\ ~healing.on
    /\ LocalFailureAfterRemoteSuccess
    /\ ReturnToCaller
    /\ healing' = [on |-> TRUE,
                   batch |-> {objs[i].pk : i \in 1..Len(objs)}]
    /\ UNCHANGED <<again, resolved, mutated>>

\* Afterwards: non-forced passes over the Django model, none of which fails.
Quiet ==
    /\ healing.on
    /\ \/ BeginSync(DjangoModel, FALSE, {})
       \/ StreamNothing
       \/ StreamBulkClean
       \/ DoneIndexing
       \/ Commit
       \/ Return

\* Before: the Django model while entities are mutated and calls may fail.
HealNext ==
    \/ \E c \in Contents : ~healing.on /\ Create(c)
    \/ \E pk \in 1..NEnt, c \in Contents : ~healing.on /\ Save(pk, c)
    \/ ~healing.on /\ ResetEsIndex
    \/ \E f \in BOOLEAN : ~healing.on /\ BeginSync(DjangoModel, f, {})
    \/ ~healing.on /\ StreamNothing
    \/ \E rejects \in [1..Len(documents) -> BOOLEAN] :
            ~healing.on /\ StreamBulk(rejects)
    \/ ~healing.on /\ BulkTransportError
    \/ ~healing.on /\ DoneIndexing
    \/ ~healing.on /\ LocalFailure
    \/ ~healing.on /\ RaiseBulkIndexError
    \/ ~healing.on /\ Commit
    \/ ~healing.on /\ Return
    \/ Settle
    \/ healing.on /\ BeginSync(DjangoModel, FALSE, {})
    \/ healing.on /\ StreamNothing
    \/ healing.on /\ StreamBulkClean
    \/ healing.on /\ DoneIndexing
    \/ healing.on /\ Commit
    \/ healing.on /\ Return

\* Passes keep being run and each runs to its end.
SpecHeal == Init /\ [][HealNext]_vars /\ WF_vars(Quiet)

\* ------------------------------------------------- the same call, twice
\* A forced pass has returned without error and the caller makes the same
\* call again, nothing else happening in between.
ReturnToRepeat ==
    /\ ~again.on
    /\ pc = "done" /\ outcome = "ok" /\ force
    /\ ReturnToCaller
    /\ again' = [on |-> TRUE, model |-> model,
                 chosen |-> IF IsDjango(model) THEN {}
                            ELSE {objs[i].pk : i \in 1..Len(objs)}]
    /\ UNCHANGED <<healing, resolved, mutated>>

\* The second call: same model, force_reindexing = True, and the override
\* of the non-Django class returns the same objects.
RepeatSync ==
    /\ again.on
    /\ BeginSync(again.model, TRUE, again.chosen)

ReturnFromRepeat ==
    /\ again.on
    /\ ReturnToCaller
    /\ again' = NotAgain
    /\ UNCHANGED <<healing, resolved, mutated>>

TwiceNext ==
    \/ \E c \in Contents : ~again.on /\ Create(c)
    \/ \E pk \in 1..NEnt, c \in Contents : ~again.on /\ Save(pk, c)
    \/ ~again.on /\ ResetEsIndex
    \/ \E cls \in Models, f \in BOOLEAN, chosen \in SUBSET (1..NPlain) :
            ~again.on /\ BeginSync(cls, f, chosen)
    \/ StreamNothing
    \/ \E rejects \in [1..Len(documents) -> BOOLEAN] : StreamBulk(rejects)
    \/ BulkTransportError
    \/ DoneIndexing
    \/ LocalFailure
    \/ RaiseBulkIndexError
    \/ Commit
    \/ ~again.on /\ Return
    \/ ReturnToRepeat
    \/ RepeatSync
    \/ ReturnFromRepeat

SpecTwice == Init /\ [][TwiceNext]_vars

\* --------------------------------------- another actor, during the call
\* Another actor loads row pk, changes its content and calls save() while
\* the call is between fetching the objects and reconciling the row; its
\* write is committed at once.  A row the call has already written is locked
\* until the call's transaction ends.
ConcurrentSave(pk, c) ==
    /\ pc \in {"built", "streaming"}
    /\ pk \in 1..Len(db)
    /\ pk \notin DOMAIN tx
    /\ LET row == SavedRow(SetFlag([Load(db, pk) EXCEPT !.content = c], TRUE))
       IN  /\ db' = [db EXCEPT ![pk] = row]
           /\ mutated' = (pk :> row) @@ mutated
    /\ UNCHANGED <<plain, remote, nextAuto, pc, model, force, objs,
                   documents, results, idx, tx, outcome, calls, built, pre,
                   healing, again, resolved>>

ReturnForgetting ==
    /\ ReturnToCaller
    /\ mutated' = EmptyTx
    /\ UNCHANGED <<healing, again, resolved>>

ConcNext ==
    \/ \E c \in Contents : Create(c)
    \/ \E pk \in 1..NEnt, c \in Contents : Save(pk, c)
    \/ ResetEsIndex
    \/ \E f \in BOOLEAN : BeginSync(DjangoModel, f, {})
    \/ \E pk \in 1..NEnt, c \in Contents : ConcurrentSave(pk, c)
    \/ StreamNothing
    \/ \E rejects \in [1..Len(documents) -> BOOLEAN] : StreamBulk(rejects)
    \/ BulkTransportError
    \/ DoneIndexing
    \/ LocalFailure
    \/ RaiseBulkIndexError
    \/ Commit
    \/ ReturnForgetting

SpecConc == Init /\ [][ConcNext]_vars

\* -------------------------------------- get_es_content_type, called alone
\* The classmethod called on a class, whatever the objects are at the time;
\* the caller keeps the result of its latest call.
CallGetEsContentType(cls) ==
    /\ pc = "idle"
    /\ resolved' = [cls |-> cls, content_type |-> GetEsContentType(cls)]
    /\ UNCHANGED <<db, plain, remote, nextAuto, pc, model, force, objs,
                   documents, results, idx, tx, outcome, calls, built, pre,
                   healing, again, mutated>>

TypeNext ==
    \/ \E c \in Contents : Create(c)
    \/ \E pk \in 1..NEnt, c \in Contents : Save(pk, c)
    \/ ResetEsIndex
    \/ \E cls \in Classes : CallGetEsContentType(cls)
    \/ \E f \in BOOLEAN : BeginSync(DjangoModel, f, {})
    \/ StreamNothing
    \/ \E rejects \in [1..Len(documents) -> BOOLEAN] : StreamBulk(rejects)
    \/ BulkTransportError
    \/ DoneIndexing
    \/ LocalFailure
    \/ RaiseBulkIndexError
    \/ Commit
    \/ Return

SpecTypes == Init /\ [][TypeNext]_vars


\* ================================================================ claims
\* A call of es_bulk_action_on_model is running or has just ended.
InSync == pc \in {"built", "streaming", "done", "failed"}

\* The i-th fetched object as it was when the call fetched it.
PreObj(i) ==
    IF IsDjango(model) THEN Load(pre.db, objs[i].pk)
    ELSE PlainObj(pre.plain, objs[i].pk)

\* The identifier the remote index returned for the i-th operation.
ReturnedId(i) == results[i].hit[documents[i]["_op_type"]]["_id"]

\* Where the remote index keeps the document of the i-th operation.
ReturnedKey(i) == <<documents[i]["_type"], ReturnedId(i)>>

\* Where the remote index keeps the document of the Django row pk.
RowKey(pk) == <<GetEsContentType(DjangoModel), Str(pk)>>

\* C1: after a pass that ends without error, every fetched entity has
\* es_flagged = False and es_already_indexed = True in the database (for the
\* Django model; the attributes for the other class), and its es_id, in
\* memory and when the object is loaded again, is the identifier the remote
\* index returned for this entity's operation.
C1_SyncedAfterPass ==
    (pc = "done" /\ outcome = "ok") =>
        \A i \in 1..Len(objs) :
            /\ objs[i].es_id = ReturnedId(i)
            /\ objs[i].es_already_indexed
            /\ IF IsDjango(model)
               THEN /\ ~db[objs[i].pk].es_flagged
                    /\ db[objs[i].pk].es_already_indexed
                    /\ Load(db, objs[i].pk).es_id = ReturnedId(i)
               ELSE /\ plain[objs[i].pk].es_id = ReturnedId(i)
                    /\ plain[objs[i].pk].es_already_indexed

C1_Witness ==
    /\ pc = "done" /\ outcome = "ok" /\ IsDjango(model) /\ ~force
    /\ Len(objs) = 2
    /\ \E i \in 1..2 : documents[i]["_op_type"] = "update"

\* C2: in every reachable state, a row whose es_flagged is False has a
\* document in the remote index that equals the document built from the row.
C2_CleanMeansIndexed ==
    \A pk \in 1..Len(db) :
        ~db[pk].es_flagged =>
            /\ RowKey(pk) \in DOMAIN remote
            /\ remote[RowKey(pk)] = GetEsDocumentSource(Load(db, pk))

\* C3: when a save() of the reconciliation loop fails, at any position of
\* the batch, the table is what it was before the call, and every operation
\* the remote index accepted is still in the remote index.
C3_LocalFailureRollsBack ==
    (pc = "failed" /\ outcome = "DatabaseError") =>
        /\ db = pre.db
        /\ \A i \in 1..Len(results) :
              results[i].ok =>
                  /\ ReturnedKey(i) \in DOMAIN remote
                  /\ remote[ReturnedKey(i)] = GetEsDocumentSource(PreObj(i))

C3_Witness ==
    /\ pc = "failed" /\ outcome = "DatabaseError"
    /\ Len(objs) = 2 /\ idx = 2
    /\ ~objs[1].es_flagged /\ pre.db[objs[1].pk].es_flagged
    /\ \A i \in 1..2 : results[i].ok

\* The documents the remote index holds for the Django row pk.
RowDocuments(pk) ==
    {key \in DOMAIN remote :
        key[1] = GetEsContentType(DjangoModel) /\ remote[key].pk = pk}

\* Row pk is clean and the remote index holds exactly one document for it,
\* with the row's content.
Converged(pk) ==
    /\ pk \in 1..Len(db)
    /\ ~db[pk].es_flagged
    /\ db[pk].es_already_indexed
    /\ RowDocuments(pk) = {RowKey(pk)}
    /\ remote[RowKey(pk)] = GetEsDocumentSource(Load(db, pk))

\* After the failed pass: the flags are those of before the pass, so every
\* entity that was pending is still selected by get_es_indexable(False), and
\* the remote index holds the new content.
C4_StillPending ==
    LocalFailureAfterRemoteSuccess =>
        \A i \in 1..Len(objs) :
            LET pk == objs[i].pk
            IN  /\ db[pk] = pre.db[pk]
                /\ (pre.db[pk].es_flagged \/ ~force)
                       => pk \in GetEsDjangoIndexable(db, FALSE)
                /\ RowDocuments(pk) = {RowKey(pk)}
                /\ remote[RowKey(pk)] = GetEsDocumentSource(Load(db, pk))

\* A pass over the Django model resubmits every flagged row, and when it
\* ends without failure every row of its batch is converged.
C4_NextPassConverges ==
    (InSync /\ IsDjango(model)) =>
        /\ \A pk \in 1..Len(pre.db) :
              pre.db[pk].es_flagged => \E i \in 1..Len(objs) : objs[i].pk = pk
        /\ (pc = "done" /\ outcome = "ok") =>
              \A i \in 1..Len(objs) : Converged(objs[i].pk)

\* C4 (amended): after a pass whose bulk request succeeded and whose
\* transaction failed, every entity of the batch has the flags it had
\* before (those that were pending are still returned by
\* get_es_indexable(False); one that a forced pass fetched although it was
\* clean stays clean) and its new content in the remote index; a later pass
\* that runs without failure resubmits the pending entities and leaves them
\* converged; and when, from the failed pass on, nothing is mutated, nothing
\* fails and passes keep running, every entity of the failed batch becomes
\* converged and stays so.
C4_SelfHealing ==
    /\ []C4_StillPending
    /\ []C4_NextPassConverges
    /\ \A pk \in 1..NEnt :
          [](healing.on /\ pk \in healing.batch => <>[]Converged(pk))

C4_Witness ==
    /\ healing.on /\ healing.batch = {1, 2}
    /\ pc = "done" /\ outcome = "ok" /\ ~force
    /\ Len(objs) = 2
    /\ \A i \in 1..2 : /\ Converged(objs[i].pk)
                       /\ pre.db[objs[i].pk].es_flagged
                       /\ RowKey(objs[i].pk) \in DOMAIN pre.remote
    /\ pre.db[1].es_already_indexed
    /\ ~pre.db[2].es_already_indexed

\* C4 as stated: after the failed pass every entity of the batch is still
\* returned by get_es_indexable(False).
C4_Original ==
    LocalFailureAfterRemoteSuccess =>
        \A i \in 1..Len(objs) : objs[i].pk \in GetEsDjangoIndexable(db, FALSE)

\* C5: the operation built for an entity is `update` exactly when the
\* entity's es_already_indexed is True and force_reindexing is False, and
\* `index` otherwise; a forced pass builds only `index`, and an `update`
\* carries the entity's es_id.
C5_ActionChoice ==
    InSync =>
        \A i \in 1..Len(documents) :
            /\ documents[i]["_op_type"] \in {"index", "update"}
            /\ documents[i]["_op_type"] = "update"
                   <=> (PreObj(i).es_already_indexed /\ ~force)
            /\ force => documents[i]["_op_type"] = "index"
            /\ documents[i]["_op_type"] = "update"
                   => documents[i]["_id"] = PreObj(i).es_id

C5_Witness ==
    /\ pc = "built" /\ IsDjango(model) /\ ~force
    /\ Len(documents) = 2
    /\ documents[1]["_op_type"] = "update" /\ documents[1]["_id"] = "1"
    /\ documents[2]["_op_type"] = "index"

\* C6 (amended): an `index` operation carries `_id` exactly when the
\* entity's es_id is not empty.  An entity with es_already_indexed = False
\* and es_id = "" is never an object of the Django model and has no
\* es_flagged; one pass submits it as one `index` operation without `_id`,
\* and on success its es_id is the identifier the remote index assigned and
\* its es_already_indexed is True.
C6_IndexIdentifier ==
    /\ InSync =>
          \A i \in 1..Len(documents) :
              documents[i]["_op_type"] = "index" =>
                  /\ ("_id" \in DOMAIN documents[i]) <=> (PreObj(i).es_id # "")
                  /\ "_id" \in DOMAIN documents[i]
                         => documents[i]["_id"] = PreObj(i).es_id
    /\ (pc = "made" /\ built.action = "index") =>
          (("_id" \in DOMAIN built.document) <=> (objs[1].es_id # ""))
    /\ (pc = "done" /\ outcome = "ok") =>
          /\ Len(documents) = Len(objs)
          /\ \A i \in 1..Len(objs) :
                (PreObj(i).es_id = "" /\ ~PreObj(i).es_already_indexed) =>
                    /\ ~IsDjango(model)
                    /\ "es_flagged" \notin DOMAIN objs[i]
                    /\ documents[i]["_op_type"] = "index"
                    /\ "_id" \notin DOMAIN documents[i]
                    /\ ReturnedKey(i) \notin DOMAIN pre.remote
                    /\ ReturnedKey(i) \in DOMAIN remote
                    /\ ReturnedId(i) # ""
                    /\ objs[i].es_id = ReturnedId(i)
                    /\ plain[objs[i].pk].es_id = ReturnedId(i)
                    /\ plain[objs[i].pk].es_already_indexed

C6_Witness ==
    /\ pc = "done" /\ outcome = "ok" /\ Len(objs) = 1
    /\ PreObj(1).es_id = "" /\ ~PreObj(1).es_already_indexed
    /\ "_id" \notin DOMAIN documents[1]
    /\ plain[objs[1].pk].es_id = "auto-1"

\* C6 as stated: the entity submitted without identifier has a needsSync
\* flag, which is False after the successful pass.
C6_Original ==
    (pc = "done" /\ outcome = "ok") =>
        \A i \in 1..Len(objs) :
            (PreObj(i).es_id = "" /\ ~PreObj(i).es_already_indexed) =>
                /\ objs[i].es_id = ReturnedId(i)
                /\ objs[i].es_already_indexed
                /\ "es_flagged" \in DOMAIN objs[i]
                /\ ~objs[i].es_flagged

\* C7: building an `update` or `delete` operation for an entity whose es_id
\* is empty raises, and no `update` or `delete` operation with an empty
\* `_id` is ever built.
C7_EmptyIdRejected ==
    /\ (pc = "made" /\ built.action \in {"update", "delete"}
            /\ objs[1].es_id = "") => built.raised # ""
    /\ (pc = "made" /\ built.raised = ""
            /\ built.action \in {"update", "delete"})
          => built.document["_id"] # ""
    /\ InSync =>
          \A i \in 1..Len(documents) :
              documents[i]["_op_type"] \in {"update", "delete"}
                  => documents[i]["_id"] # ""

\* C8: make_es_document with an action other than index, update, delete
\* raises ValueError; nothing was sent to the remote index and the table,
\* the objects and the remote index are what they were before the call.
C8_InvalidActionRaises ==
    (pc = "made" /\ built.action \notin {"index", "update", "delete"}) =>
        /\ built.raised = "ValueError"
        /\ outcome = "ValueError"
        /\ "document" \notin DOMAIN built
        /\ calls = 0
        /\ db = pre.db
        /\ plain = pre.plain
        /\ remote = pre.remote

C8_Witness == pc = "made" /\ built.action = "merge" /\ Len(db) > 0

AppliesResult(i) ==
    /\ pc = "streaming" /\ idx = i /\ idx' = i + 1
    /\ i \in 1..Len(results) /\ results[i].ok

\* The running pass commits, and its batch holds a successful `index`
\* operation for the Django row pk.
CommitsIndexOf(pk) ==
    /\ pc = "streaming" /\ pc' = "done"
    /\ \E i \in 1..Len(objs) :
          /\ objs[i].pk = pk
          /\ results[i].ok
          /\ documents[i]["_op_type"] = "index"

Pks(list) == {list[i].pk : i \in 1..Len(list)}

\* list holds one object for each row of S, built from the row.
ExactlyRows(list, S, table) ==
    /\ Pks(list) = S
    /\ Len(list) = Cardinality(S)
    /\ \A i \in 1..Len(list) : list[i] = Load(table, list[i].pk)

\* C12: for the Django model, get_es_indexable(False) returns exactly the
\* rows whose es_flagged is True, get_es_indexable(True) returns every row
\* whatever its flags, the forced result contains the non-forced one, and
\* these are the objects a pass works on.
C12_PendingSets ==
    LET flagged == {pk \in 1..Len(db) : db[pk].es_flagged}
        pending == GetEsIndexable(DjangoModel, FALSE, {}, db, plain)
        every == GetEsIndexable(DjangoModel, TRUE, {}, db, plain)
    IN  /\ ExactlyRows(pending, flagged, db)
        /\ ExactlyRows(every, 1..Len(db), db)
        /\ Pks(pending) \subseteq Pks(every)
        /\ (pc = "built" /\ IsDjango(model)) =>
              /\ db = pre.db
              /\ objs = IF force THEN every ELSE pending

C12_Witness ==
    /\ pc = "built" /\ IsDjango(model) /\ force
    /\ Len(objs) = 2
    /\ ~db[1].es_flagged /\ db[1].es_already_indexed
    /\ db[2].es_flagged /\ ~db[2].es_already_indexed
    /\ Pks(GetEsIndexable(DjangoModel, FALSE, {}, db, plain)) = {2}

\* C13: when es_bulk_action_on_model(model, force_reindexing=True) has
\* returned without error and is called again with nothing in between, the
\* second call submits the operations of the first on the same identifiers,
\* and from its bulk request on, however it ends, the remote index holds
\* the documents it held after the first call (same keys, same content);
\* when it has ended, the rows and the objects' flags are those the first
\* call left.
C13_ForcedTwice ==
    (again.on /\ InSync) =>
        /\ model = again.model /\ force
        /\ DOMAIN remote = DOMAIN pre.remote
        /\ \A i \in 1..Len(documents) :
              /\ documents[i]["_op_type"] = "index"
              /\ "_id" \in DOMAIN documents[i]
              /\ <<documents[i]["_type"], documents[i]["_id"]>>
                     \in DOMAIN pre.remote
              /\ pre.remote[<<documents[i]["_type"], documents[i]["_id"]>>]
                     = documents[i]["_source"]
        /\ pc \in {"streaming", "done", "failed"} => remote = pre.remote
        /\ pc \in {"done", "failed"} =>
              /\ db = pre.db
              /\ plain = pre.plain
              /\ \A i \in 1..Len(objs) :
                    /\ objs[i].es_already_indexed
                    /\ objs[i].es_id = PreObj(i).es_id
                    /\ IsDjango(model) => ~db[objs[i].pk].es_flagged

C13_Witness ==
    /\ again.on /\ pc = "done" /\ outcome = "ok"
    /\ Len(objs) = 2
    /\ Cardinality(DOMAIN remote) >= 2
    /\ \A i \in 1..2 : results[i].hit["index"]["status"] = 200

\* C14: every save() of a row other than the one es_done_indexing makes
\* leaves the row with es_flagged = True whatever it was (a new row too);
\* the save es_done_indexing makes writes es_flagged = False, and the commit
\* of the pass puts it in the table; the es_flagged of a row goes from True
\* to False in no other step than the commit of a pass in which
\* es_done_indexing ran for the row.
C14_OnlyDoneIndexingCleans ==
    [][ /\ \A pk \in 1..Len(db) :
              /\ (\E c \in Contents : Save(pk, c)) => db'[pk].es_flagged
              /\ (db[pk].es_flagged /\ ~db'[pk].es_flagged) =>
                    /\ Commit
                    /\ pk \in DOMAIN tx
                    /\ \E i \in 1..Len(objs) :
                          /\ i < idx
                          /\ objs[i].pk = pk
                          /\ results[i].ok
                          /\ ~objs[i].es_flagged
        /\ (\E c \in Contents : Create(c)) => db'[Len(db')].es_flagged
        /\ (DoneIndexing /\ IsDjango(model)) =>
              /\ ~objs'[idx].es_flagged
              /\ ~tx'[objs[idx].pk].es_flagged
        /\ Commit => \A pk \in DOMAIN tx : ~db'[pk].es_flagged
      ]_vars

C14_Witness ==
    /\ pc = "done" /\ outcome = "ok" /\ IsDjango(model) /\ ~force
    /\ Len(objs) = 1
    /\ pre.db[objs[1].pk].es_flagged
    /\ pre.db[objs[1].pk].es_already_indexed
    /\ ~db[objs[1].pk].es_flagged
    /\ Len(db) = 2 /\ \A pk \in 1..2 : ~db[pk].es_flagged

\* C15: when get_es_indexable returns an empty list, the call goes on to
\* its end without raising, sends nothing to the remote index, and leaves
\* the rows, the objects and the remote index as they were.
C15_EmptyIsNoOp ==
    (InSync /\ Len(objs) = 0) =>
        /\ documents = <<>>
        /\ results = <<>>
        /\ calls = 0
        /\ pc # "failed"
        /\ outcome \in {"running", "ok"}
        /\ pc = "built" => ENABLED StreamNothing
        /\ pc = "streaming" => ENABLED Commit
        /\ pc = "done" => outcome = "ok"
        /\ tx = EmptyTx
        /\ db = pre.db
        /\ plain = pre.plain
        /\ remote = pre.remote

C15_Witness ==
    /\ pc = "done" /\ outcome = "ok" /\ Len(objs) = 0
    /\ IsDjango(model) /\ ~force
    /\ Len(db) = 2
    /\ Cardinality(DOMAIN remote) = 1

\* C16: whatever save() calls and passes have happened (forced or not,
\* committed or rolled back after the remote index accepted the batch), the
\* remote index holds at most one document for a row of the Django model,
\* under the identifier str(pk); every operation submitted for a row
\* carries `_id` = str(pk), which is the es_id of the object at that time.
C16_OneDocumentPerRow ==
    /\ \A key \in DOMAIN remote :
          key[1] = GetEsContentType(DjangoModel) =>
              /\ remote[key].pk \in 1..Len(db)
              /\ key = RowKey(remote[key].pk)
    /\ \A pk \in 1..Len(db) :
          /\ RowDocuments(pk) \subseteq {RowKey(pk)}
          /\ Cardinality(RowDocuments(pk)) <= 1
    /\ (InSync /\ IsDjango(model)) =>
          \A i \in 1..Len(documents) :
              /\ "_id" \in DOMAIN documents[i]
              /\ documents[i]["_id"] = Str(objs[i].pk)
              /\ documents[i]["_id"] = PreObj(i).es_id
              /\ objs[i].es_id = Str(objs[i].pk)

C16_Witness ==
    /\ pc = "failed" /\ outcome = "DatabaseError" /\ IsDjango(model)
    /\ Len(objs) = 2
    /\ \A i \in 1..2 :
          /\ results[i].ok
          /\ RowKey(objs[i].pk) \in DOMAIN pre.remote
          /\ ~pre.db[objs[i].pk].es_already_indexed
          /\ RowDocuments(objs[i].pk) = {RowKey(objs[i].pk)}

\* C17: when another actor has saved a row with new content after the call
\* fetched it and before the call reconciled it, then after the call has
\* committed, the row holds the content the other actor saved and its
\* es_flagged is True.
C17_ConcurrentSaveSurvives ==
    (pc = "done" /\ outcome = "ok") =>
        \A i \in 1..Len(objs) :
            objs[i].pk \in DOMAIN mutated =>
                /\ db[objs[i].pk].content = mutated[objs[i].pk].content
                /\ db[objs[i].pk].es_flagged

\* C18: every `update` operation a pass is about to submit names a document
\* the remote index holds at that time.
C18_UpdateTargetsExist ==
    pc = "built" =>
        \A i \in 1..Len(documents) :
            documents[i]["_op_type"] = "update" =>
                <<documents[i]["_type"], documents[i]["_id"]>>
                    \in DOMAIN remote

\* The lowercase names of cls and of all its ancestors that are indexable,
\* ESDjangoIndexableMixin left out, joined by `_`, the most general first
\* and cls last.
RECURSIVE JoinedFrom(_, _, _)
RECURSIVE JoinedAncestry(_)
JoinedFrom(bases, i, tail) ==
    IF i > Len(bases) THEN tail
    ELSE JoinedFrom(bases, i + 1,
            IF IsSubclass(bases[i], "ESIndexableMixin")
               /\ bases[i] # "ESDjangoIndexableMixin"
            THEN JoinedAncestry(bases[i]) \o "_" \o tail
            ELSE tail)

JoinedAncestry(cls) == JoinedFrom(Bases(cls), 1, Lower(cls))

\* C19: get_es_content_type of a class is the `_`-joined lowercase names of
\* all its indexable ancestors (ESDjangoIndexableMixin left out), the most
\* general first and the class's own name last, "g_p_c" for C in the chain
\* G -> P -> C, whatever the state of the objects.
C19_ContentTypeIsAncestry ==
    resolved.cls # "" =>
        /\ resolved.content_type = JoinedAncestry(resolved.cls)
        /\ resolved.cls = "C" => resolved.content_type = "g_p_c"

====
